---- MODULE Spec2Model ----
(***************************************************************************)
(* Model of the Soroban investment contract (src/investment).              *)
(*                                                                         *)
(* State: the contract's storage entries (ContractData, ContractBalances,  *)
(* Investment records, the claims map, the multisig request), the token    *)
(* ledger of the asset the contract moves, the ledger timestamp, and the   *)
(* outcome of the last invocation.  One action per public operation; an    *)
(* invocation that returns Err leaves the storage and the token ledger as  *)
(* they were (the host rolls a failed invocation back).                    *)
(*                                                                         *)
(* The BallotToken contract (src/ballot/BallotToken) is modelled beside    *)
(* it: ballot holds its instance, persistent and temporary storage and the *)
(* outcome of its last invocation.  The two contracts share no state.      *)
(***************************************************************************)
EXTENDS Integers, Sequences, FiniteSets, TLC

VARIABLES contract_data, balances, investments, claims_map, multisig, tokens, now, last,
          ballot

vars == <<contract_data, balances, investments, claims_map, multisig, tokens, now, last,
          ballot>>

(***************************************************************************)
(* Program constants.                                                      *)
(***************************************************************************)
SECONDS_IN_DAY == 86400
SECONDS_IN_WEEK == 7 * SECONDS_IN_DAY
SECONDS_IN_MONTH == 30 * SECONDS_IN_DAY

LOWER_AMOUNT_FOR_COMMISSION_REDUCTION == 100
LOWER_DIVISOR == 10
UPPER_DIVISOR == 60
AMOUNT_PER_COMMISSION_REDUCTION == 400

(***************************************************************************)
(* Bounds of the model.                                                    *)
(***************************************************************************)
\* The clock runs over the starts of the 30-day months 0..MaxMonths.
MaxMonths == 2
\* The commission denominator is computed for the amounts 100 * k, k up to
\* MaxHundreds: 100 + 400 * 64 = 25,700 is the last amount of interest.
MaxHundreds == 260
\* How many negative moves of 400 may drive moved_from_project_to_reserve below
\* zero before the model stops exploring further negative moves.
MaxNegativeMoved == 1

(***************************************************************************)
(* Principals and inputs.                                                  *)
(***************************************************************************)
Admin == "admin"
Project == "project"
User == "user"
Contract == "contract"

Principals == {Admin, Project, User}
Holders == Principals \cup {Contract}

\* Rust's integer division truncates toward zero; \div floors.
TruncDiv(a, b) ==
    IF a >= 0 THEN a \div b ELSE -((-a) \div b)

\* An optional storage entry is the empty set (absent) or a singleton.
The(s) ==
    CHOOSE x \in s : TRUE

EmptyMap ==
    [k \in {} |-> 0]

MapSet(f, key, value) ==
    [k \in DOMAIN f \cup {key} |-> IF k = key THEN value ELSE f[k]]

Contains(seq, x) ==
    \E i \in 1..Len(seq) : seq[i] = x

(***************************************************************************)
(* balance.rs                                                              *)
(***************************************************************************)
calculate_rate_denominator(amount) ==
    IF amount <= LOWER_AMOUNT_FOR_COMMISSION_REDUCTION
    THEN LOWER_DIVISOR
    ELSE LET a == TruncDiv(amount - LOWER_AMOUNT_FOR_COMMISSION_REDUCTION,
                           AMOUNT_PER_COMMISSION_REDUCTION)
         IN  IF a > UPPER_DIVISOR THEN UPPER_DIVISOR ELSE LOWER_DIVISOR + a

ContractBalances_new ==
    [reserve |-> 0, project |-> 0, comission |-> 0, received_so_far |-> 0,
     payments |-> 0, reserve_contributions |-> 0, project_withdrawals |-> 0,
     moved_from_project_to_reserve |-> 0]

ContractBalances_sum(b) ==
    b.comission + b.project + b.reserve

\* Mutant: the commission is not taken out of the amount to invest.
from_investment_CommissionNotDeducted(amount, i_rate) ==
    LET rate_denominator == calculate_rate_denominator(amount)
        amount_to_commission ==
            TruncDiv(TruncDiv(TruncDiv(amount * i_rate, rate_denominator), 100), 100)
        amount_to_reserve_fund == TruncDiv(amount * 5, 100)
    IN  [amount_to_invest |-> amount - amount_to_reserve_fund,
         amount_to_reserve_fund |-> amount_to_reserve_fund,
         amount_to_commission |-> amount_to_commission]

from_investment(amount, i_rate) ==
    LET rate_denominator == calculate_rate_denominator(amount)
        amount_to_commission ==
            TruncDiv(TruncDiv(TruncDiv(amount * i_rate, rate_denominator), 100), 100)
        amount_to_reserve_fund == TruncDiv(amount * 5, 100)
    IN  [amount_to_invest |-> amount - amount_to_commission - amount_to_reserve_fund,
         amount_to_reserve_fund |-> amount_to_reserve_fund,
         amount_to_commission |-> amount_to_commission]

\* Mutant: the whole deposit, commission included, is counted as received.
recalculate_contract_balances_from_investment_CountsCommission(b, amounts) ==
    [b EXCEPT !.comission = @ + amounts.amount_to_commission,
              !.reserve = @ + amounts.amount_to_reserve_fund,
              !.project = @ + amounts.amount_to_invest,
              !.received_so_far =
                  @ + amounts.amount_to_reserve_fund + amounts.amount_to_invest
                    + amounts.amount_to_commission]

recalculate_contract_balances_from_investment(b, amounts) ==
    [b EXCEPT !.comission = @ + amounts.amount_to_commission,
              !.reserve = @ + amounts.amount_to_reserve_fund,
              !.project = @ + amounts.amount_to_invest,
              !.received_so_far =
                  @ + amounts.amount_to_reserve_fund + amounts.amount_to_invest]

increment_reserve_balance_from_company_contribution(b, amount) ==
    [b EXCEPT !.reserve = @ + amount,
              !.reserve_contributions = @ + amount]

\* Mutant: a withdrawal is counted but not taken out of the project pool.
decrement_project_balance_from_company_withdrawal_CountedOnly(b, amount) ==
    [b EXCEPT !.project_withdrawals = @ + amount]

decrement_project_balance_from_company_withdrawal(b, amount) ==
    [b EXCEPT !.project = @ - amount,
              !.project_withdrawals = @ + amount]

\* Mutant: the payment to the investor is taken from the project pool.
decrement_project_balance_from_payment_to_investor_FromProject(b, amount) ==
    [b EXCEPT !.project = @ - amount,
              !.payments = @ + amount]

decrement_project_balance_from_payment_to_investor(b, amount) ==
    [b EXCEPT !.reserve = @ - amount,
              !.payments = @ + amount]

move_from_project_balance_to_reserve_balance(b, amount) ==
    [b EXCEPT !.project = @ - amount,
              !.reserve = @ + amount,
              !.moved_from_project_to_reserve = @ + amount]

(***************************************************************************)
(* multisig.rs, storage.rs                                                 *)
(***************************************************************************)
add_sig(req, addr) ==
    IF ~Contains(req.expected_addrs, addr)
    THEN req
    ELSE [req EXCEPT !.signed_addrs = Append(@, addr)]

\* Mutant: every address passes as an expected signer.
is_valid_signature_Anyone(req, addr) ==
    TRUE

is_valid_signature(req, addr) ==
    Contains(req.expected_addrs, addr)

is_completed(req) ==
    Len(req.signed_addrs) = Len(req.expected_addrs)

\* Mutant: the request is given a month of grace after its deadline.
is_expired_MonthOfGrace(req, current_ts) ==
    current_ts > req.valid_ts + SECONDS_IN_MONTH

is_expired(req, current_ts) ==
    current_ts > req.valid_ts

\* Mutant: a new request starts with the admin's signature already in it.
MultisigRequest_new_PreSigned(cd, function, successful_signatures, amount, valid_ts) ==
    [function |-> function,
     successful_signatures |-> successful_signatures,
     expected_addrs |-> <<cd.admin, cd.project_address>>,
     signed_addrs |-> <<cd.admin>>,
     amount |-> amount,
     valid_ts |-> valid_ts]

MultisigRequest_new(cd, function, successful_signatures, amount, valid_ts) ==
    [function |-> function,
     successful_signatures |-> successful_signatures,
     expected_addrs |-> <<cd.admin, cd.project_address>>,
     signed_addrs |-> <<>>,
     amount |-> amount,
     valid_ts |-> valid_ts]

\* Mutant: the stored request is ignored and a new one is made on every call.
get_multisig_or_new_AlwaysNew(stored, cd, multisig_claim, successful_signatures, amount, valid_ts) ==
    MultisigRequest_new(cd, multisig_claim, successful_signatures, amount, valid_ts)

get_multisig_or_new(stored, cd, multisig_claim, successful_signatures, amount, valid_ts) ==
    IF stored # {}
    THEN The(stored)
    ELSE MultisigRequest_new(cd, multisig_claim, successful_signatures, amount, valid_ts)

(***************************************************************************)
(* investment.rs, claim.rs                                                 *)
(***************************************************************************)
ReverseLoan == "ReverseLoan"
Coupon == "Coupon"
OneTimePayment == "OneTimePayment"

\* Option<InvestmentReturnType> as a set: empty for None.
InvestmentReturnType_from_number(value) ==
    CASE value = 1 -> {ReverseLoan}
      [] value = 2 -> {Coupon}
      [] value = 3 -> {OneTimePayment}
      [] OTHER -> {}

\* Mutant: the lock period is ignored when the record is created.
build_investment_NeverBlocked(cd, amount, ts) ==
    LET amounts == from_investment(amount, cd.interest_rate)
        real_amount == amounts.amount_to_invest + amounts.amount_to_reserve_fund
        current_interest ==
            TruncDiv(real_amount * TruncDiv(cd.interest_rate, 100), 100)
        total == real_amount + current_interest
        regular_payment ==
            CASE cd.return_type = Coupon -> TruncDiv(current_interest, cd.return_months)
              [] cd.return_type = ReverseLoan -> TruncDiv(total, cd.return_months)
              [] OTHER -> 0
    IN  [deposited |-> real_amount,
         accumulated_interests |-> current_interest,
         total |-> total,
         claimable_ts |-> ts + cd.claim_block_days * 86400,
         last_transfer_ts |-> 0,
         status |-> "Claimable",
         regular_payment |-> regular_payment,
         paid |-> 0]

build_investment(cd, amount, ts) ==
    LET amounts == from_investment(amount, cd.interest_rate)
        real_amount == amounts.amount_to_invest + amounts.amount_to_reserve_fund
        current_interest ==
            TruncDiv(real_amount * TruncDiv(cd.interest_rate, 100), 100)
        status == IF cd.claim_block_days > 0 THEN "Blocked" ELSE "Claimable"
        total == real_amount + current_interest
        claimable_ts == ts + cd.claim_block_days * 86400
        regular_payment ==
            CASE cd.return_type = Coupon -> TruncDiv(current_interest, cd.return_months)
              [] cd.return_type = ReverseLoan -> TruncDiv(total, cd.return_months)
              [] OTHER -> 0
    IN  [deposited |-> real_amount,
         accumulated_interests |-> current_interest,
         total |-> total,
         claimable_ts |-> claimable_ts,
         last_transfer_ts |-> 0,
         status |-> status,
         regular_payment |-> regular_payment,
         paid |-> 0]

\* The record invest stores: the record build_investment computes, with the
\* count of installments transferred so far, which the payment step keeps.
new_investment(cd, amount, ts) ==
    build_investment(cd, amount, ts) @@ [installments_transferred |-> 0]

\* Mutant: the investment finishes by the sums paid, not by the count of
\* installments (ReverseLoan: paid > total - regular_payment; Coupon: paid >=
\* accumulated_interests).
process_investment_payment_FinishesBySums(investment, cd, ts) ==
    LET i1 == IF investment.status = "Blocked"
              THEN [investment EXCEPT !.status = "CashFlowing"]
              ELSE investment
        paid == i1.paid + i1.regular_payment
        done == \/ cd.return_type = ReverseLoan /\ paid > (i1.total - i1.regular_payment)
                \/ cd.return_type = Coupon /\ paid >= i1.accumulated_interests
        principal == IF cd.return_type = Coupon /\ done THEN i1.deposited ELSE 0
    IN  [investment |->
             [i1 EXCEPT !.installments_transferred = @ + 1,
                        !.paid = paid + principal,
                        !.last_transfer_ts = ts,
                        !.status = IF done THEN "Finished" ELSE @],
         amount_to_transfer |-> i1.regular_payment + principal]

\* Mutant: the principal a finishing Coupon returns is sent but not counted in paid.
process_investment_payment_PrincipalNotCounted(investment, cd, ts) ==
    LET i1 == IF investment.status = "Blocked"
              THEN [investment EXCEPT !.status = "CashFlowing"]
              ELSE investment
        installments == i1.installments_transferred + 1
        done == /\ cd.return_type \in {ReverseLoan, Coupon}
                /\ installments >= cd.return_months
        principal == IF cd.return_type = Coupon /\ done THEN i1.deposited ELSE 0
    IN  [investment |->
             [i1 EXCEPT !.installments_transferred = installments,
                        !.paid = @ + i1.regular_payment,
                        !.last_transfer_ts = ts,
                        !.status = IF done THEN "Finished" ELSE @],
         amount_to_transfer |-> i1.regular_payment + principal]

\* The record after a payment and the tokens the payment sends to the investor:
\* a Blocked record starts CashFlowing; the amount is the regular payment; when
\* the installments reach the configured count the record is Finished, and a
\* Coupon then returns the deposited principal with the last installment.  paid
\* counts all that is sent (tests/common/mod.rs:130-140).
process_investment_payment(investment, cd, ts) ==
    LET i1 == IF investment.status = "Blocked"
              THEN [investment EXCEPT !.status = "CashFlowing"]
              ELSE investment
        installments == i1.installments_transferred + 1
        done == /\ cd.return_type \in {ReverseLoan, Coupon}
                /\ installments >= cd.return_months
        principal == IF cd.return_type = Coupon /\ done THEN i1.deposited ELSE 0
        amount_to_transfer == i1.regular_payment + principal
    IN  [investment |->
             [i1 EXCEPT !.installments_transferred = installments,
                        !.paid = @ + amount_to_transfer,
                        !.last_transfer_ts = ts,
                        !.status = IF done THEN "Finished" ELSE @],
         amount_to_transfer |-> amount_to_transfer]

\* Mutant: only the claims already due are counted.
is_claim_next_DueOnly(claim, ts) ==
    claim.next_transfer_ts <= ts

is_claim_next(claim, ts) ==
    claim.next_transfer_ts <= ts + 7 * 24 * 60 * 60

calculate_next_claim(investment, ts) ==
    LET seconds_in_a_month == 30 * 24 * 60 * 60
    IN  [next_transfer_ts |->
             IF investment.last_transfer_ts > 0
             THEN investment.last_transfer_ts + seconds_in_a_month
             ELSE ts + seconds_in_a_month,
         amount_to_pay |-> investment.regular_payment]

(***************************************************************************)
(* The token the contract moves (the Stellar asset contract the tests      *)
(* register): a transfer fails on a negative amount or when the sender     *)
(* holds less than the amount.                                             *)
(***************************************************************************)
token_can_transfer(tk, from, amount) ==
    amount >= 0 /\ tk[from] >= amount

\* Mutant: a transfer the token refuses is taken as made.
try_transfer_RefusalIgnored(accepted, tk, from, amount) ==
    token_can_transfer(tk, from, amount)

\* try_transfer: Ok when the token carries the transfer out.  The token may
\* also refuse a transfer that the balances allow (a frozen or deauthorised
\* holder); accepted says whether it does not.
try_transfer(accepted, tk, from, amount) ==
    accepted /\ token_can_transfer(tk, from, amount)

token_transfer(tk, from, to, amount) ==
    [h \in DOMAIN tk |->
        IF from = to THEN tk[h]
        ELSE IF h = from THEN tk[h] - amount
        ELSE IF h = to THEN tk[h] + amount
        ELSE tk[h]]

(***************************************************************************)
(* BallotToken (src/ballot/BallotToken/src/lib.rs).  A storage is a map    *)
(* from keys to values; a key is the DataKey variant with its arguments.   *)
(***************************************************************************)
BallotOutcome(op, from, to, result) ==
    [op |-> op, from |-> from, to |-> to, result |-> result]

BallotToken_new ==
    [instance |-> EmptyMap, persistent |-> EmptyMap, temporary |-> EmptyMap,
     last |-> BallotOutcome("deploy", "none", "none", "Ok")]

MapRemove(f, key) ==
    [k \in DOMAIN f \ {key} |-> f[k]]

has_admin(b) ==
    <<"Admin">> \in DOMAIN b.instance

\* is_owner reads the Owner entry from the instance storage.
is_owner(b, addr) ==
    <<"Owner", addr>> \in DOMAIN b.instance

\* OwnerBallotInfo.add_delegation, owner being the address delegated to.
add_delegation(temporary, owner, addr) ==
    LET blocked == MapSet(temporary, <<"Delegated", addr>>, TRUE)
        key == <<"Delegations", owner>>
    IN  IF key \in DOMAIN blocked
        THEN MapSet(blocked, key, Append(blocked[key], addr))
        ELSE MapSet(blocked, key, <<addr>>)

\* OwnerBallotInfo.is_delegated reads the Delegated entry, a bool, as an Address:
\* where the entry exists the conversion aborts the invocation.
delegated_entry(b, addr) ==
    <<"Delegated", addr>> \in DOMAIN b.temporary

\* An invocation that returns Err, or that the host aborts: no write is kept.
BallotFails(op, from, to, error) ==
    ballot' = [ballot EXCEPT !.last = BallotOutcome(op, from, to, error)]

Initialize(admin) ==
    IF has_admin(ballot)
    THEN BallotFails("initialize", admin, "none", "TokenAlreadyInitialized")
    ELSE ballot' = [ballot EXCEPT
                      !.instance = MapSet(@, <<"Admin">>, admin),
                      !.last = BallotOutcome("initialize", admin, "none", "Ok")]

\* mint(addr): the Owner entry is written to the persistent storage.  Without an
\* admin the unwrap of the Admin entry aborts the invocation.
Mint(addr) ==
    IF ~has_admin(ballot)
    THEN BallotFails("mint", addr, "none", "HostError")
    ELSE IF is_owner(ballot, addr)
    THEN BallotFails("mint", addr, "none", "AddressAlreadyHoldsToken")
    ELSE ballot' = [ballot EXCEPT
                      !.persistent = MapSet(@, <<"Owner", addr>>, 1),
                      !.last = BallotOutcome("mint", addr, "none", "Ok")]

Burn(addr) ==
    IF ~has_admin(ballot)
    THEN BallotFails("burn", addr, "none", "HostError")
    ELSE ballot' = [ballot EXCEPT
                      !.persistent = MapRemove(@, <<"Owner", addr>>),
                      !.last = BallotOutcome("burn", addr, "none", "Ok")]

\* OwnerBallotInfo.request_delegation is called on the requester with its own
\* address, so that the entry written names the requester twice.
RequestDelegation(from, to) ==
    IF ~is_owner(ballot, from) \/ ~is_owner(ballot, to)
    THEN BallotFails("request_delegation", from, to, "AddressDoesNotHoldToken")
    ELSE IF delegated_entry(ballot, from) \/ delegated_entry(ballot, to)
    THEN BallotFails("request_delegation", from, to, "HostError")
    ELSE ballot' = [ballot EXCEPT
                      !.temporary = MapSet(@, <<"RequestDelegation", from, from>>, FALSE),
                      !.last = BallotOutcome("request_delegation", from, to, "Ok")]

ApproveDelegation(from, to) ==
    IF ~is_owner(ballot, from) \/ ~is_owner(ballot, to)
    THEN BallotFails("approve_delegation", from, to, "AddressDoesNotHoldToken")
    ELSE ballot' = [ballot EXCEPT
                      !.temporary = add_delegation(@, to, from),
                      !.last = BallotOutcome("approve_delegation", from, to, "Ok")]

(***************************************************************************)
(* Inputs of the operations.                                               *)
(***************************************************************************)
\* Constructor arguments: one accepted configuration per return type, one with
\* a very high rate, one without a lock period, and one rejected argument each.
BaseArgs ==
    [i_rate |-> 500, claim_block_days |-> 1, goal |-> 996, return_type |-> 1,
     return_months |-> 2, min_per_investment |-> 100]

ConstructorArgs ==
    { BaseArgs,
      [BaseArgs EXCEPT !.return_type = 2],
      [BaseArgs EXCEPT !.i_rate = 200000],
      [BaseArgs EXCEPT !.i_rate = 0],
      [BaseArgs EXCEPT !.goal = 0],
      [BaseArgs EXCEPT !.return_months = 0],
      [BaseArgs EXCEPT !.min_per_investment = 0],
      [BaseArgs EXCEPT !.return_type = 0] }

\* The arguments initialisation is exercised on: those above, the return types
\* 3 and 4, and a negative goal and minimum.
InitArgs ==
    ConstructorArgs \cup
    { [BaseArgs EXCEPT !.return_type = 3],
      [BaseArgs EXCEPT !.return_type = 4],
      [BaseArgs EXCEPT !.goal = -1],
      [BaseArgs EXCEPT !.min_per_investment = -1] }

\* The configurations the Balance Ledger is exercised on.
LedgerArgs ==
    { BaseArgs, [BaseArgs EXCEPT !.return_type = 2] }

InvestAmounts == {50, 620, 1000}
AdminAmounts == {-400, 0, 400}
MultisigAmounts == {400, 450}
Investors == {User}

\* Ledger timestamps the clock can be set to: the start of a month and one day
\* later (the lock period and the validity window of a request are one day).
Instants ==
    { (30 * m + d) * SECONDS_IN_DAY : m \in 0..MaxMonths, d \in {0, 1} }

InitialTokens ==
    [h \in Holders |->
        CASE h = User -> 1500
          [] h = Admin -> 800
          [] OTHER -> 0]

(***************************************************************************)
(* Outcome of an invocation.                                               *)
(***************************************************************************)
Outcome(op, who, amount, ts, result) ==
    [op |-> op, who |-> who, amount |-> amount, ts |-> ts, result |-> result]

\* An invocation that returns Err: nothing it wrote is kept.
Fails(op, who, amount, ts, error) ==
    /\ last' = Outcome(op, who, amount, ts, error)
    /\ UNCHANGED <<contract_data, balances, investments, claims_map, multisig, tokens, now>>

Init ==
    /\ contract_data = {}
    /\ balances = ContractBalances_new
    /\ investments = EmptyMap
    /\ claims_map = EmptyMap
    /\ multisig = {}
    /\ tokens = InitialTokens
    /\ now = 0
    /\ last = Outcome("deploy", "none", 0, 0, "Ok")
    /\ ballot = BallotToken_new

(***************************************************************************)
(* storage.rs                                                              *)
(***************************************************************************)
\* Investment records are read by (investor, claimable_ts) (contract.rs:156).
investment_key(addr, ts) ==
    <<addr, ts>>

get_investment(addr, ts) ==
    IF investment_key(addr, ts) \in DOMAIN investments
    THEN {investments[investment_key(addr, ts)]}
    ELSE {}

set_investment(store, addr, investment) ==
    MapSet(store, investment_key(addr, investment.claimable_ts), investment)

\* update_investment: the record and the investor's entry of the claims map.
update_investment(addr, investment) ==
    /\ investments' = set_investment(investments, addr, investment)
    /\ claims_map' = MapSet(claims_map, addr, calculate_next_claim(investment, now))

(***************************************************************************)
(* contract.rs: the checks of the operations.                              *)
(***************************************************************************)
\* Mutant: the goal is not checked.
constructor_error_GoalUnchecked(a) ==
    CASE ~(a.i_rate > 0) -> "InterestRateMustBeGreaterThanZero"
      [] ~(a.return_months > 0) -> "ReturnMonthsMustBeGreaterThanZero"
      [] ~(a.min_per_investment > 0) -> "MinPerInvestmentMustBeGreaterThanZero"
      [] InvestmentReturnType_from_number(a.return_type) = {} -> "UnsupportedReturnType"
      [] OTHER -> "Ok"

constructor_error(a) ==
    CASE ~(a.i_rate > 0) -> "InterestRateMustBeGreaterThanZero"
      [] ~(a.goal > 0) -> "GoalMustBeGreaterThanZero"
      [] ~(a.return_months > 0) -> "ReturnMonthsMustBeGreaterThanZero"
      [] ~(a.min_per_investment > 0) -> "MinPerInvestmentMustBeGreaterThanZero"
      [] InvestmentReturnType_from_number(a.return_type) = {} -> "UnsupportedReturnType"
      [] OTHER -> "Ok"

\* Mutant: the investor's token balance is not checked.
invest_error_BalanceUnchecked(cd, amount, balance) ==
    CASE ~(amount >= cd.min_per_investment) -> "AmountLessThanMinimum"
      [] ~(cd.state = "Actve") -> "ContractMustBeActiveToInvest"
      [] OTHER -> "Ok"

invest_error(cd, amount, balance) ==
    CASE ~(amount >= cd.min_per_investment) -> "AmountLessThanMinimum"
      [] ~(cd.state = "Actve") -> "ContractMustBeActiveToInvest"
      [] ~(balance >= amount) -> "AddressInsufficientBalance"
      [] OTHER -> "Ok"

\* Mutant: the deposit being made is left out of the comparison.
within_goal_WithoutDeposit(received_so_far, invested_amount, goal) ==
    received_so_far <= goal

within_goal(received_so_far, invested_amount, goal) ==
    received_so_far + invested_amount <= goal

\* Mutant: the goal counts as reached only when it is exceeded.
goal_reached_OnlyWhenExceeded(received_so_far, goal) ==
    received_so_far > goal

goal_reached(received_so_far, goal) ==
    received_so_far >= goal

\* Mutant: a withdrawal is compared with what the contract has received.
project_covers_withdrawal_AgainstReceived(project, amount) ==
    balances.received_so_far >= amount

project_covers_withdrawal(project, amount) ==
    project >= amount

project_covers_move(project, amount) ==
    project > amount

\* Mutant: the reserve is not compared with the amount.
reserve_covers_payment_Unchecked(amount_to_transfer, reserve) ==
    TRUE

reserve_covers_payment(amount_to_transfer, reserve) ==
    amount_to_transfer <= reserve

\* Mutant: the time since the last transfer is not checked.
payment_error_NoMonthCheck(investment, ts) ==
    CASE ~(ts >= investment.claimable_ts) -> "AddressInvestmentIsNotClaimableYet"
      [] ~(investment.status # "Finished") -> "AddressInvestmentIsFinished"
      [] OTHER -> "Ok"

\* Mutant: the time since the last transfer is checked before the status.
payment_error_MonthCheckFirst(investment, ts) ==
    CASE ~(ts >= investment.claimable_ts) -> "AddressInvestmentIsNotClaimableYet"
      [] ~(investment.last_transfer_ts = 0
            \/ (ts - investment.last_transfer_ts) >= SECONDS_IN_MONTH)
           -> "AddressInvestmentNextTransferNotClaimableYet"
      [] ~(investment.status # "Finished") -> "AddressInvestmentIsFinished"
      [] OTHER -> "Ok"

payment_error(investment, ts) ==
    CASE ~(ts >= investment.claimable_ts) -> "AddressInvestmentIsNotClaimableYet"
      [] ~(investment.status # "Finished") -> "AddressInvestmentIsFinished"
      [] ~(investment.last_transfer_ts = 0
            \/ (ts - investment.last_transfer_ts) >= SECONDS_IN_MONTH)
           -> "AddressInvestmentNextTransferNotClaimableYet"
      [] OTHER -> "Ok"

(***************************************************************************)
(* contract.rs: the operations.                                            *)
(***************************************************************************)
\* Mutant: any principal passes for the required one.
require_auth_Anyone(caller, required) ==
    TRUE

\* required.require_auth(): the invocation carries the authorisation of the
\* required address.
require_auth(caller, required) ==
    caller = required

\* An invocation by caller of an operation that begins with
\* required.require_auth(): without the authorisation the host aborts it and
\* nothing changes; with it the operation runs.
CalledBy(caller, required, op, Operation) ==
    IF require_auth(caller, required)
    THEN Operation
    ELSE Fails(op, caller, 0, 0, "AuthFailed")

Constructor(a) ==
    /\ contract_data = {}
    /\ LET err == constructor_error(a)
       IN  /\ contract_data' =
                IF err = "Ok"
                THEN {[interest_rate |-> a.i_rate,
                       claim_block_days |-> a.claim_block_days,
                       project_address |-> Project,
                       admin |-> Admin,
                       state |-> "Actve",
                       return_type |-> The(InvestmentReturnType_from_number(a.return_type)),
                       return_months |-> a.return_months,
                       min_per_investment |-> a.min_per_investment,
                       goal |-> a.goal]}
                ELSE {}
           /\ last' = Outcome("constructor", Admin, 0, 0, err)
    /\ UNCHANGED <<balances, investments, claims_map, multisig, tokens, now>>

InvestVia(addr, amount, accepted) ==
    /\ contract_data # {}
    /\ LET cd == The(contract_data)
           amounts == from_investment(amount, cd.interest_rate)
           invested_amount == amounts.amount_to_invest + amounts.amount_to_reserve_fund
           new_balances == recalculate_contract_balances_from_investment(balances, amounts)
           addr_investment == new_investment(cd, amount, now)
           err == invest_error(cd, amount, tokens[addr])
       IN  IF err # "Ok"
           THEN Fails("invest", addr, amount, 0, err)
           ELSE IF ~within_goal(balances.received_so_far, invested_amount, cd.goal)
           THEN Fails("invest", addr, amount, 0, "WouldExceedGoal")
           ELSE IF ~try_transfer(accepted, tokens, addr, amount)
           THEN Fails("invest", addr, amount, 0, "RecipientCannotReceivePayment")
           ELSE /\ tokens' = token_transfer(tokens, addr, Contract, amount)
                /\ balances' = new_balances
                /\ update_investment(addr, addr_investment)
                /\ contract_data' =
                     IF goal_reached(new_balances.received_so_far, cd.goal)
                     THEN {[cd EXCEPT !.state = "FundsReached"]}
                     ELSE contract_data
                /\ last' = Outcome("invest", addr, amount, addr_investment.claimable_ts, "Ok")
                /\ UNCHANGED <<multisig, now>>

Invest(addr, amount) ==
    InvestVia(addr, amount, TRUE)

ProcessInvestorPaymentVia(addr, ts, accepted) ==
    /\ contract_data # {}
    /\ LET cd == The(contract_data)
           found == get_investment(addr, ts)
       IN  IF found = {}
           THEN Fails("process_investor_payment", addr, 0, ts, "AddressHasNotInvested")
           ELSE LET err == payment_error(The(found), now)
                    paid == process_investment_payment(The(found), cd, now)
                    amount_to_transfer == paid.amount_to_transfer
                IN  IF err # "Ok"
                    THEN Fails("process_investor_payment", addr, 0, ts, err)
                    ELSE IF ~reserve_covers_payment(amount_to_transfer, balances.reserve)
                    THEN Fails("process_investor_payment", addr, amount_to_transfer, ts,
                               "ContractInsufficientBalance")
                    ELSE IF ~try_transfer(accepted, tokens, Contract, amount_to_transfer)
                    THEN Fails("process_investor_payment", addr, amount_to_transfer, ts,
                               "RecipientCannotReceivePayment")
                    ELSE /\ tokens' = token_transfer(tokens, Contract, addr, amount_to_transfer)
                         /\ update_investment(addr, paid.investment)
                         /\ balances' = decrement_project_balance_from_payment_to_investor(
                                            balances, amount_to_transfer)
                         /\ last' = Outcome("process_investor_payment", addr,
                                            amount_to_transfer, ts, "Ok")
                         /\ UNCHANGED <<contract_data, multisig, now>>

ProcessInvestorPayment(addr, ts) ==
    ProcessInvestorPaymentVia(addr, ts, TRUE)

\* Mutant: a contract that reached its funds can be paused too.
StopInvestments_FromAnyState ==
    /\ contract_data # {}
    /\ LET cd == The(contract_data)
       IN  IF cd.state = "Paused"
           THEN Fails("stop_investments", cd.admin, 0, 0, "ContractMustBeActiveToBePaused")
           ELSE /\ contract_data' = {[cd EXCEPT !.state = "Paused"]}
                /\ last' = Outcome("stop_investments", cd.admin, 0, 0, "Ok")
                /\ UNCHANGED <<balances, investments, claims_map, multisig, tokens, now>>

StopInvestments ==
    /\ contract_data # {}
    /\ LET cd == The(contract_data)
       IN  IF ~(cd.state = "Actve")
           THEN Fails("stop_investments", cd.admin, 0, 0, "ContractMustBeActiveToBePaused")
           ELSE /\ contract_data' = {[cd EXCEPT !.state = "Paused"]}
                /\ last' = Outcome("stop_investments", cd.admin, 0, 0, "Ok")
                /\ UNCHANGED <<balances, investments, claims_map, multisig, tokens, now>>

RestartInvestments ==
    /\ contract_data # {}
    /\ LET cd == The(contract_data)
       IN  IF ~(cd.state = "Paused")
           THEN Fails("restart_investments", cd.admin, 0, 0,
                      "ContractMustBePausedToRestartAgain")
           ELSE /\ contract_data' = {[cd EXCEPT !.state = "Actve"]}
                /\ last' = Outcome("restart_investments", cd.admin, 0, 0, "Ok")
                /\ UNCHANGED <<balances, investments, claims_map, multisig, tokens, now>>

SingleWithdrawnVia(amount, accepted) ==
    /\ contract_data # {}
    /\ LET cd == The(contract_data)
       IN  IF ~project_covers_withdrawal(balances.project, amount)
           THEN Fails("single_withdrawn", cd.admin, amount, 0, "ContractInsufficientBalance")
           ELSE IF ~try_transfer(accepted, tokens, Contract, amount)
           THEN Fails("single_withdrawn", cd.admin, amount, 0, "RecipientCannotReceivePayment")
           ELSE /\ tokens' = token_transfer(tokens, Contract, cd.project_address, amount)
                /\ balances' = decrement_project_balance_from_company_withdrawal(balances, amount)
                /\ last' = Outcome("single_withdrawn", cd.admin, amount, 0, "Ok")
                /\ UNCHANGED <<contract_data, investments, claims_map, multisig, now>>

SingleWithdrawn(amount) ==
    SingleWithdrawnVia(amount, TRUE)

AddCompanyTransferVia(amount, accepted) ==
    /\ contract_data # {}
    /\ LET cd == The(contract_data)
       IN  IF ~(tokens[cd.admin] >= amount)
           THEN Fails("add_company_transfer", cd.admin, amount, 0, "AddressInsufficientBalance")
           ELSE IF ~try_transfer(accepted, tokens, cd.admin, amount)
           THEN Fails("add_company_transfer", cd.admin, amount, 0,
                      "RecipientCannotReceivePayment")
           ELSE /\ tokens' = token_transfer(tokens, cd.admin, Contract, amount)
                /\ balances' = increment_reserve_balance_from_company_contribution(
                                   balances, amount)
                /\ last' = Outcome("add_company_transfer", cd.admin, amount, 0, "Ok")
                /\ UNCHANGED <<contract_data, investments, claims_map, multisig, now>>

AddCompanyTransfer(amount) ==
    AddCompanyTransferVia(amount, TRUE)

MoveFundsToTheReserve(amount) ==
    /\ contract_data # {}
    /\ balances.moved_from_project_to_reserve + amount >= -(400 * MaxNegativeMoved)
    /\ LET cd == The(contract_data)
       IN  IF ~project_covers_move(balances.project, amount)
           THEN Fails("move_funds_to_the_reserve", cd.admin, amount, 0,
                      "ProjectBalanceInsufficientAmount")
           ELSE /\ balances' = move_from_project_balance_to_reserve_balance(balances, amount)
                /\ last' = Outcome("move_funds_to_the_reserve", cd.admin, amount, 0, "Ok")
                /\ UNCHANGED <<contract_data, investments, claims_map, multisig, tokens, now>>

\* min_funds of check_reserve_balance: amount_to_pay summed over the entries of
\* the claims map that are next.
RECURSIVE min_funds(_, _, _)
min_funds(claims, addrs, ts) ==
    IF addrs = {}
    THEN 0
    ELSE LET addr == CHOOSE a \in addrs : TRUE
             rest == min_funds(claims, addrs \ {addr}, ts)
         IN  IF is_claim_next(claims[addr], ts)
             THEN rest + claims[addr].amount_to_pay
             ELSE rest

\* check_reserve_balance(): what the reserve lacks to pay the claims that are
\* next; the value returned is the amount of the outcome.
CheckReserveBalance ==
    /\ contract_data # {}
    /\ LET cd == The(contract_data)
           funds == min_funds(claims_map, DOMAIN claims_map, now)
           diff_to_contribute ==
               IF funds > 0 /\ balances.reserve < funds
               THEN funds - balances.reserve
               ELSE 0
       IN  /\ last' = Outcome("check_reserve_balance", cd.admin, diff_to_contribute, 0, "Ok")
           /\ UNCHANGED <<contract_data, balances, investments, claims_map, multisig,
                          tokens, now>>

\* get_contract_balance(): the ledger, read by the admin.
GetContractBalance ==
    /\ contract_data # {}
    /\ last' = Outcome("get_contract_balance", The(contract_data).admin,
                       ContractBalances_sum(balances), 0, "Ok")
    /\ UNCHANGED <<contract_data, balances, investments, claims_map, multisig, tokens, now>>

\* The keys process_investor_payment is invoked with.
PaymentKeys ==
    {k[2] : k \in DOMAIN investments} \cup {0}

\* The operations that begin with require_admin, invoked by caller.
AdminCall(caller) ==
    /\ contract_data # {}
    /\ LET admin == The(contract_data).admin
       IN  \/ \E addr \in Investors, ts \in PaymentKeys :
                 CalledBy(caller, admin, "process_investor_payment",
                          ProcessInvestorPayment(addr, ts))
           \/ CalledBy(caller, admin, "get_contract_balance", GetContractBalance)
           \/ CalledBy(caller, admin, "stop_investments", StopInvestments)
           \/ CalledBy(caller, admin, "restart_investments", RestartInvestments)
           \/ CalledBy(caller, admin, "single_withdrawn", SingleWithdrawn(400))
           \/ CalledBy(caller, admin, "check_reserve_balance", CheckReserveBalance)
           \/ CalledBy(caller, admin, "add_company_transfer", AddCompanyTransfer(400))
           \/ CalledBy(caller, admin, "move_funds_to_the_reserve", MoveFundsToTheReserve(400))

\* invest(addr, amount) invoked by caller: addr.require_auth() comes first.
InvestCall(caller, addr, amount) ==
    CalledBy(caller, addr, "invest", Invest(addr, amount))

(***************************************************************************)
(* multisig_withdrawn(signer, amount): the two-signer withdrawal.  The     *)
(* steps are those of the protocol description, over the request type of   *)
(* multisig.rs and get_multisig_or_new of storage.rs.                      *)
(***************************************************************************)
MULTISIG_FUNCTION == "multisig_withdrawn"

\* Mutant: the amount is not compared with the project pool.
exceeds_project_pool_Unchecked(amount, project) ==
    FALSE

\* The first step of every call: the amount against the project pool as it is
\* at that call.
exceeds_project_pool(amount, project) ==
    amount > project

multisig_error(req, addr, amount, ts) ==
    CASE ~is_valid_signature(req, addr) -> "MultisigUnexpectedSigner"
      [] is_expired(req, ts) -> "MultisigRequestExpired"
      [] amount # req.amount -> "MultisigAmountMismatch"
      [] OTHER -> "Ok"

MultisigWithdrawn(addr, amount) ==
    /\ contract_data # {}
    /\ LET cd == The(contract_data)
           valid_ts == now + SECONDS_IN_DAY
           req == get_multisig_or_new(multisig, cd, MULTISIG_FUNCTION, 2, amount, valid_ts)
           err == multisig_error(req, addr, amount, now)
           signed == add_sig(req, addr)
       IN  IF exceeds_project_pool(amount, balances.project)
           THEN Fails("multisig_withdrawn", addr, amount, 0, "ContractInsufficientBalance")
           ELSE IF err # "Ok"
           THEN Fails("multisig_withdrawn", addr, amount, 0, err)
           ELSE IF is_completed(signed)
           THEN IF ~token_can_transfer(tokens, Contract, amount)
                THEN Fails("multisig_withdrawn", addr, amount, 0,
                           "RecipientCannotReceivePayment")
                ELSE /\ tokens' = token_transfer(tokens, Contract, cd.project_address, amount)
                     /\ multisig' = {}
                     /\ balances' = decrement_project_balance_from_company_withdrawal(
                                        balances, amount)
                     /\ last' = Outcome("multisig_withdrawn", addr, amount, 0, "Completed")
                     /\ UNCHANGED <<contract_data, investments, claims_map, now>>
           ELSE /\ multisig' = {signed}
                /\ last' = Outcome("multisig_withdrawn", addr, amount, 0,
                                   "WaitingForSignatures")
                /\ UNCHANGED <<contract_data, balances, investments, claims_map, tokens, now>>

(***************************************************************************)
(* The ledger clock.                                                       *)
(***************************************************************************)
AdvanceTime(t) ==
    /\ t > now
    /\ now' = t
    /\ last' = Outcome("advance_time", "none", 0, t, "Ok")
    /\ UNCHANGED <<contract_data, balances, investments, claims_map, multisig, tokens>>

(***************************************************************************)
(* Specifications.  The whole contract is Spec; SpecLedger leaves the       *)
(* multisig request and the pause switch alone and exercises the Balance    *)
(* Ledger, SpecMultisig runs the withdrawal protocol on one configuration.  *)
(***************************************************************************)
Next ==
    \/ \E a \in ConstructorArgs : Constructor(a)
    \/ \E addr \in Investors, amount \in InvestAmounts : Invest(addr, amount)
    \/ \E addr \in Investors, ts \in PaymentKeys : ProcessInvestorPayment(addr, ts)
    \/ StopInvestments
    \/ RestartInvestments
    \/ \E amount \in AdminAmounts : SingleWithdrawn(amount)
    \/ \E amount \in AdminAmounts : AddCompanyTransfer(amount)
    \/ \E amount \in AdminAmounts : MoveFundsToTheReserve(amount)
    \/ \E addr \in Principals, amount \in MultisigAmounts : MultisigWithdrawn(addr, amount)
    \/ \E t \in Instants : AdvanceTime(t)

Spec ==
    Init /\ [][Next /\ UNCHANGED ballot]_vars

NextLedger ==
    \/ \E a \in LedgerArgs : Constructor(a)
    \/ \E addr \in Investors, amount \in InvestAmounts : Invest(addr, amount)
    \/ \E addr \in Investors, ts \in PaymentKeys : ProcessInvestorPayment(addr, ts)
    \/ \E amount \in AdminAmounts : SingleWithdrawn(amount)
    \/ \E amount \in AdminAmounts : AddCompanyTransfer(amount)
    \/ \E amount \in AdminAmounts : MoveFundsToTheReserve(amount)
    \/ \E t \in Instants : AdvanceTime(t)

SpecLedger ==
    Init /\ [][NextLedger /\ UNCHANGED ballot]_vars

NextMultisig ==
    \/ Constructor(BaseArgs)
    \/ \E addr \in Investors : Invest(addr, 1000)
    \/ \E addr \in Principals, amount \in MultisigAmounts : MultisigWithdrawn(addr, amount)
    \/ SingleWithdrawn(400)
    \/ MoveFundsToTheReserve(400)
    \/ \E t \in Instants : AdvanceTime(t)

SpecMultisig ==
    Init /\ [][NextMultisig /\ UNCHANGED ballot]_vars

NextSplit ==
    \/ \E a \in ConstructorArgs : Constructor(a)
    \/ \E addr \in Investors, amount \in InvestAmounts : Invest(addr, amount)
    \/ \E t \in Instants : AdvanceTime(t)

SpecSplit ==
    Init /\ [][NextSplit /\ UNCHANGED ballot]_vars

\* The life of the configuration: deployment, deposits and the pause switch.
NextLifecycle ==
    \/ \E a \in ConstructorArgs : Constructor(a)
    \/ \E addr \in Investors, amount \in InvestAmounts : Invest(addr, amount)
    \/ StopInvestments
    \/ RestartInvestments
    \/ \E t \in Instants : AdvanceTime(t)

SpecLifecycle ==
    Init /\ [][NextLifecycle /\ UNCHANGED ballot]_vars

\* The configurations the payments are exercised on: the two of the ledger, a
\* reverse loan paid back in one installment, and a coupon with a rate below 1%.
PaymentArgs ==
    LedgerArgs \cup { [BaseArgs EXCEPT !.return_months = 1],
                      [BaseArgs EXCEPT !.return_type = 2, !.i_rate = 50] }

NextPayments ==
    \/ \E a \in PaymentArgs : Constructor(a)
    \/ \E addr \in Investors, amount \in InvestAmounts : Invest(addr, amount)
    \/ \E addr \in Investors, ts \in PaymentKeys : ProcessInvestorPayment(addr, ts)
    \/ AddCompanyTransfer(400)
    \/ \E t \in Instants : AdvanceTime(t)

SpecPayments ==
    Init /\ [][NextPayments /\ UNCHANGED ballot]_vars

\* The forecast of the reserve: deposits, payments, the reserve filled and
\* emptied, and the admin asking what it lacks.
NextForecast ==
    \/ \E a \in LedgerArgs : Constructor(a)
    \/ \E addr \in Investors, amount \in InvestAmounts : Invest(addr, amount)
    \/ \E addr \in Investors, ts \in PaymentKeys : ProcessInvestorPayment(addr, ts)
    \/ AddCompanyTransfer(400)
    \/ \E amount \in AdminAmounts : MoveFundsToTheReserve(amount)
    \/ CheckReserveBalance
    \/ \E t \in Instants : AdvanceTime(t)

SpecForecast ==
    Init /\ [][NextForecast /\ UNCHANGED ballot]_vars

\* An investor holding several investments: a goal that leaves room for two
\* deposits, the payments, the reserve topped up and the forecast.
PortfolioArgs ==
    { [BaseArgs EXCEPT !.goal = 1300],
      [BaseArgs EXCEPT !.goal = 1300, !.return_type = 2] }

PortfolioAmounts == {620}

NextPortfolio ==
    \/ \E a \in PortfolioArgs : Constructor(a)
    \/ \E addr \in Investors, amount \in PortfolioAmounts : Invest(addr, amount)
    \/ \E addr \in Investors, ts \in PaymentKeys : ProcessInvestorPayment(addr, ts)
    \/ AddCompanyTransfer(400)
    \/ CheckReserveBalance
    \/ \E t \in Instants : AdvanceTime(t)

SpecPortfolio ==
    Init /\ [][NextPortfolio /\ UNCHANGED ballot]_vars

\* The payments of one investment to their end.  The admin pays what is due
\* before the ledger moves on: the clock advances, one instant at a time, only
\* when no record can be paid at the current timestamp.  The configurations
\* are those of the ledger and one of the third return type.
LivenessArgs ==
    LedgerArgs \cup { [BaseArgs EXCEPT !.return_type = 3] }

PaymentPending ==
    \E k \in DOMAIN investments : payment_error(investments[k], now) = "Ok"

AdvanceTimeWhenPaid(t) ==
    /\ ~PaymentPending
    /\ \A u \in Instants : u > now => t <= u
    /\ AdvanceTime(t)

NextLiveness ==
    \/ \E a \in LivenessArgs : Constructor(a)
    \/ \E addr \in Investors : Invest(addr, 620)
    \/ \E addr \in Investors, ts \in PaymentKeys : ProcessInvestorPayment(addr, ts)
    \/ AddCompanyTransfer(400)
    \/ \E t \in Instants : AdvanceTimeWhenPaid(t)

\* Time keeps advancing, the admin keeps topping the reserve up and keeps
\* calling process_investor_payment on every record.
SpecLiveness ==
    /\ Init
    /\ [][NextLiveness /\ UNCHANGED ballot]_vars
    /\ WF_vars((\E t \in Instants : AdvanceTimeWhenPaid(t)) /\ UNCHANGED ballot)
    /\ WF_vars(AddCompanyTransfer(400) /\ UNCHANGED ballot)
    /\ \A addr \in Investors, ts \in Instants :
          WF_vars(/\ ts \in PaymentKeys
                  /\ ProcessInvestorPayment(addr, ts)
                  /\ UNCHANGED ballot)

\* calculate_rate_denominator on its own: the amounts it is applied to, and the
\* call, whose outcome carries the amount and, as its result, the denominator.
DenominatorAmounts ==
    { 100 * k : k \in -2..MaxHundreds } \cup {90, 120, 150, 499, 501, 1900}

CalculateRateDenominator(amount) ==
    /\ last' = Outcome("calculate_rate_denominator", "none", amount, 0,
                       calculate_rate_denominator(amount))
    /\ UNCHANGED <<contract_data, balances, investments, claims_map, multisig, tokens, now>>

NextDenominator ==
    \E amount \in DenominatorAmounts : CalculateRateDenominator(amount)

SpecDenominator ==
    Init /\ [][NextDenominator /\ UNCHANGED ballot]_vars

\* Initialisation with every kind of argument, and the deposits that follow.
NextInit ==
    \/ \E a \in InitArgs : Constructor(a)
    \/ \E addr \in Investors, amount \in InvestAmounts : Invest(addr, amount)
    \/ \E t \in Instants : AdvanceTime(t)

SpecInit ==
    Init /\ [][NextInit /\ UNCHANGED ballot]_vars

\* Any principal invoking the operations of the admin and of the investor.
AuthAmounts == {620}

NextAuth ==
    \/ Constructor(BaseArgs)
    \/ \E caller \in Principals, addr \in Investors, amount \in AuthAmounts :
          InvestCall(caller, addr, amount)
    \/ \E caller \in Principals : AdminCall(caller)
    \/ \E t \in Instants : AdvanceTime(t)

SpecAuth ==
    Init /\ [][NextAuth /\ UNCHANGED ballot]_vars

\* The token refusing transfers: every operation that moves tokens, with the
\* token accepting the transfer or not.
NextTransfers ==
    \/ \E a \in LedgerArgs : Constructor(a)
    \/ \E addr \in Investors, amount \in InvestAmounts, accepted \in BOOLEAN :
          InvestVia(addr, amount, accepted)
    \/ \E addr \in Investors, ts \in PaymentKeys, accepted \in BOOLEAN :
          ProcessInvestorPaymentVia(addr, ts, accepted)
    \/ \E amount \in AdminAmounts, accepted \in BOOLEAN :
          SingleWithdrawnVia(amount, accepted)
    \/ \E amount \in AdminAmounts, accepted \in BOOLEAN :
          AddCompanyTransferVia(amount, accepted)
    \/ \E t \in Instants : AdvanceTime(t)

SpecTransfers ==
    Init /\ [][NextTransfers /\ UNCHANGED ballot]_vars

\* The BallotToken contract on its own: the admin initialises it, mints and
\* burns, and the holders ask for and approve delegations.
NextBallot ==
    \/ Initialize(Admin)
    \/ \E addr \in Principals : Mint(addr)
    \/ \E addr \in Principals : Burn(addr)
    \/ \E from \in Principals, to \in Principals : RequestDelegation(from, to)
    \/ \E from \in Principals, to \in Principals : ApproveDelegation(from, to)

SpecBallot ==
    Init /\ [][NextBallot /\ UNCHANGED <<contract_data, balances, investments, claims_map,
                                          multisig, tokens, now, last>>]_vars

\* The reverse loan of the tests (tests/success_tests.rs:18-35, test.rs:87-105,
\* with a goal the constructor accepts): rate 500, seven days of lock, four
\* monthly installments, a deposit of 100000, the company filling the reserve.
ScenarioArgs ==
    [i_rate |-> 500, claim_block_days |-> 7, goal |-> 1000000, return_type |-> 1,
     return_months |-> 4, min_per_investment |-> 100000]

ScenarioDeposit == 100000

ScenarioTokens ==
    [h \in Holders |->
        CASE h = User -> ScenarioDeposit
          [] h = Admin -> 300000
          [] OTHER -> 0]

\* The clock of the tests: 604888 s after the deposit, then 30 * 24 * 60 * 61 s
\* after each payment (tests/common/mod.rs:86-95).
ScenarioInstants ==
    { 604888 + k * (30 * 24 * 60 * 61) : k \in 0..ScenarioArgs.return_months }

InitScenario ==
    /\ contract_data = {}
    /\ balances = ContractBalances_new
    /\ investments = EmptyMap
    /\ claims_map = EmptyMap
    /\ multisig = {}
    /\ tokens = ScenarioTokens
    /\ now = 0
    /\ last = Outcome("deploy", "none", 0, 0, "Ok")
    /\ ballot = BallotToken_new

NextScenario ==
    \/ Constructor(ScenarioArgs)
    \/ \E amount \in {ScenarioDeposit - 1, ScenarioDeposit} : Invest(User, amount)
    \/ \E amount \in {30000, 100000} : AddCompanyTransfer(amount)
    \/ \E ts \in PaymentKeys : ProcessInvestorPayment(User, ts)
    \/ \E t \in ScenarioInstants : AdvanceTime(t)

SpecScenario ==
    InitScenario /\ [][NextScenario /\ UNCHANGED ballot]_vars

(***************************************************************************)
(* Properties of the multisig withdrawal (checked under SpecMultisig).     *)
(***************************************************************************)
SignedSet(stored) ==
    IF stored = {}
    THEN {}
    ELSE {The(stored).signed_addrs[i] : i \in 1..Len(The(stored).signed_addrs)}

ExpectedSigners ==
    {Admin, Project}

MultisigCall ==
    last'.op = "multisig_withdrawn"

MultisigAccepted ==
    MultisigCall /\ last'.result \in {"WaitingForSignatures", "Completed"}

NothingMoved ==
    /\ multisig' = multisig
    /\ balances' = balances
    /\ tokens' = tokens

\* C1: multisig_withdrawn reports Completed, and pays the amount to the project
\* address, only when admin and project address have both signed the open
\* request; while one distinct signer has signed it reports WaitingForSignatures
\* and no tokens leave the contract.
C1_CompletedNeedsBothSigners ==
    [][ MultisigAccepted =>
          LET signers == SignedSet(multisig) \cup {last'.who}
          IN  /\ last'.result = "Completed" =>
                    /\ signers = ExpectedSigners
                    /\ tokens'[Project] = tokens[Project] + last'.amount
              /\ Cardinality(signers) = 1 =>
                    /\ last'.result = "WaitingForSignatures"
                    /\ tokens' = tokens ]_vars

\* C2: a second call by a signer who already signed the open request, with the
\* same amount, leaves the signer count at 1; the stored signer set never holds
\* a duplicate.
C2_SigningIsIdempotent ==
    [][ /\ multisig' # {} =>
              Cardinality(SignedSet(multisig')) = Len(The(multisig').signed_addrs)
        /\ ( /\ MultisigCall
             /\ multisig # {}
             /\ Len(The(multisig).signed_addrs) = 1
             /\ last'.who \in SignedSet(multisig)
             /\ last'.amount = The(multisig).amount )
           => /\ multisig' # {}
              /\ Len(The(multisig').signed_addrs) = 1 ]_vars

\* The case of C3: a request with one signature, not expired, and a call by the
\* other expected signer with another amount.
C3_Case ==
    /\ MultisigCall
    /\ multisig # {}
    /\ Len(The(multisig).signed_addrs) = 1
    /\ ~is_expired(The(multisig), now)
    /\ last'.who \in ExpectedSigners \ SignedSet(multisig)
    /\ last'.amount # The(multisig).amount

\* C3 as stated: in that case the call fails with the amount-mismatch error, the
\* request keeps its one signature and its amount, and no funds move.
C3_MismatchRejected_AsStated ==
    [][ C3_Case => /\ last'.result = "MultisigAmountMismatch"
                   /\ NothingMoved ]_vars

\* C3 (amended): in that case the call fails and changes nothing; the error is the
\* amount-mismatch error when the amount does not exceed the project pool, and
\* the insufficient-balance error when it does.
C3_MismatchRejected ==
    [][ C3_Case => /\ last'.result = IF last'.amount > balances.project
                                     THEN "ContractInsufficientBalance"
                                     ELSE "MultisigAmountMismatch"
                   /\ NothingMoved ]_vars

C3_Witness ==
    /\ last.op = "multisig_withdrawn"
    /\ last.result = "MultisigAmountMismatch"
    /\ multisig # {}
    /\ Len(The(multisig).signed_addrs) = 1
    /\ last.who \in ExpectedSigners \ SignedSet(multisig)
    /\ last.amount # The(multisig).amount

\* The deadline of a request is set once, to creation time + 86400.
C4_DeadlineFixed ==
    /\ (multisig # {} /\ multisig' # {}) => The(multisig').valid_ts = The(multisig).valid_ts
    /\ (multisig = {} /\ multisig' # {}) => The(multisig').valid_ts = now + 86400

C4_Case ==
    /\ MultisigCall
    /\ multisig # {}
    /\ now > The(multisig).valid_ts

\* C4 as stated: the deadline is creation time + 86400 and is never extended, and
\* every call after the deadline, while the request exists, fails with the expired
\* error and leaves the request as it is.
C4_ExpiredIsAbsorbing_AsStated ==
    [][ /\ C4_DeadlineFixed
        /\ C4_Case => /\ last'.result = "MultisigRequestExpired"
                      /\ NothingMoved ]_vars

\* C4 (amended): the deadline is creation time + 86400 and is never extended, and
\* every call after the deadline, while the request exists, fails and leaves the
\* request as it is; the error is the expired error when the caller is an expected
\* signer and the amount does not exceed the project pool (the insufficient-balance
\* and unexpected-signer checks come first).
C4_ExpiredIsAbsorbing ==
    [][ /\ C4_DeadlineFixed
        /\ C4_Case =>
              /\ last'.result =
                    CASE last'.amount > balances.project -> "ContractInsufficientBalance"
                      [] last'.who \notin ExpectedSigners -> "MultisigUnexpectedSigner"
                      [] OTHER -> "MultisigRequestExpired"
              /\ NothingMoved ]_vars

C4_Witness ==
    /\ last.op = "multisig_withdrawn"
    /\ last.result = "MultisigRequestExpired"
    /\ multisig # {}
    /\ now > The(multisig).valid_ts

C5_Case ==
    /\ MultisigCall
    /\ last'.who \notin ExpectedSigners

\* C5 as stated: a call by a principal that is neither admin nor project address
\* fails with the unexpected-signer error and changes neither request nor ledger.
C5_StrangerRejected_AsStated ==
    [][ C5_Case => /\ last'.result = "MultisigUnexpectedSigner"
                   /\ NothingMoved ]_vars

\* C5 (amended): such a call fails and changes neither request nor ledger; the
\* error is the unexpected-signer error when the amount does not exceed the project
\* pool, and the insufficient-balance error when it does.
C5_StrangerRejected ==
    [][ C5_Case => /\ last'.result = IF last'.amount > balances.project
                                     THEN "ContractInsufficientBalance"
                                     ELSE "MultisigUnexpectedSigner"
                   /\ NothingMoved ]_vars

C5_Witness ==
    /\ last.op = "multisig_withdrawn"
    /\ last.result = "MultisigUnexpectedSigner"
    /\ last.who = User
    /\ multisig # {}
    /\ Len(The(multisig).signed_addrs) = 1

\* C6: a completed withdrawal clears the request; the next accepted call starts
\* from no request: it is a first signature (WaitingForSignatures), the signer set
\* holds the caller alone, and the window is 24h from that call.
C6_CompletionClearsRequest ==
    [][ MultisigAccepted =>
          /\ last'.result = "Completed" => multisig' = {}
          /\ multisig = {} =>
                /\ last'.result = "WaitingForSignatures"
                /\ multisig' # {}
                /\ The(multisig').signed_addrs = <<last'.who>>
                /\ The(multisig').amount = last'.amount
                /\ The(multisig').valid_ts = now + SECONDS_IN_DAY ]_vars

\* A first signature for 400 at a later time, after a withdrawal of 450 completed
\* (single_withdrawn moves 400 at a time, so 450 came from a completed request).
C6_Witness ==
    /\ last.op = "multisig_withdrawn"
    /\ last.result = "WaitingForSignatures"
    /\ balances.project_withdrawals = 450
    /\ multisig # {}
    /\ The(multisig).amount = 400
    /\ Len(The(multisig).signed_addrs) = 1
    /\ The(multisig).valid_ts = now + SECONDS_IN_DAY
    /\ now > 0

(***************************************************************************)
(* Properties of the Balance Ledger (checked under SpecLedger) and of the  *)
(* split of a deposit (checked under SpecSplit).                           *)
(***************************************************************************)
\* C7 as stated: reserve + project + commission equals
\* received_so_far - payments - project_withdrawals in every reachable state.
C7_LedgerSums_AsStated ==
    balances.reserve + balances.project + balances.comission
        = balances.received_so_far - balances.payments - balances.project_withdrawals

\* C7 (amended): reserve + project equals received_so_far + reserve_contributions
\* - payments - project_withdrawals in every reachable state (the commission is
\* held on top of received_so_far, and company contributions enter the reserve).
C7_LedgerSums ==
    balances.reserve + balances.project
        = balances.received_so_far + balances.reserve_contributions
            - balances.payments - balances.project_withdrawals

\* A state in which each of the five ledger transitions has been applied.
C7_Witness ==
    /\ balances.received_so_far > 0
    /\ balances.reserve_contributions > 0
    /\ balances.project_withdrawals > 0
    /\ balances.payments > 0
    /\ balances.moved_from_project_to_reserve > 0

\* C8: no field of the Balance Ledger is ever negative.
C8_NoNegativeField ==
    /\ balances.reserve >= 0
    /\ balances.project >= 0
    /\ balances.comission >= 0
    /\ balances.received_so_far >= 0
    /\ balances.payments >= 0
    /\ balances.reserve_contributions >= 0
    /\ balances.project_withdrawals >= 0
    /\ balances.moved_from_project_to_reserve >= 0

\* C9: for every amount invest accepts and every rate the constructor accepts,
\* the three parts of the split add up to the amount and none is negative.
C9_SplitIsExactAndNonNegative ==
    [][ (last'.op = "invest" /\ last'.result = "Ok") =>
          LET amounts == from_investment(last'.amount, The(contract_data).interest_rate)
          IN  /\ amounts.amount_to_invest + amounts.amount_to_reserve_fund
                    + amounts.amount_to_commission = last'.amount
              /\ amounts.amount_to_invest >= 0
              /\ amounts.amount_to_reserve_fund >= 0
              /\ amounts.amount_to_commission >= 0 ]_vars

InvestedAmount(amount) ==
    LET amounts == from_investment(amount, The(contract_data).interest_rate)
    IN  amounts.amount_to_invest + amounts.amount_to_reserve_fund

AllButLast ==
    <<contract_data, balances, investments, claims_map, multisig, tokens, now>>

\* C11: the state is FundsReached exactly when received_so_far equals the goal;
\* the invest that reaches the goal moves Actve to FundsReached, and in
\* FundsReached no invest succeeds.
C11_FundsReachedIffGoal ==
    [][ /\ contract_data' # {} =>
              ( The(contract_data').state = "FundsReached"
                  <=> balances'.received_so_far = The(contract_data').goal )
        /\ ( /\ last'.op = "invest"
             /\ last'.result = "Ok"
             /\ balances'.received_so_far = The(contract_data).goal )
              => /\ The(contract_data).state = "Actve"
                 /\ The(contract_data').state = "FundsReached"
        /\ ( /\ last'.op = "invest"
             /\ The(contract_data).state = "FundsReached" )
              => /\ last'.result # "Ok"
                 /\ UNCHANGED AllButLast ]_vars

\* An invest turned away after the goal was reached.
C11_Witness ==
    /\ contract_data # {}
    /\ The(contract_data).state = "FundsReached"
    /\ balances.received_so_far = The(contract_data).goal
    /\ last.op = "invest"
    /\ last.result = "ContractMustBeActiveToInvest"

\* C12: invest fails, moving no tokens and changing no stored state, with
\* AmountLessThanMinimum when the amount is below min_per_investment, with
\* ContractMustBeActiveToInvest when the state is not Actve, and with
\* AddressInsufficientBalance when the investor holds less than the amount (the
\* three conditions taken in this order when more than one holds).
C12_InvestRejections ==
    [][ last'.op = "invest" =>
          LET cd == The(contract_data)
              amount == last'.amount
              expected ==
                  CASE amount < cd.min_per_investment -> "AmountLessThanMinimum"
                    [] cd.state # "Actve" -> "ContractMustBeActiveToInvest"
                    [] tokens[last'.who] < amount -> "AddressInsufficientBalance"
                    [] OTHER -> "None"
          IN  /\ expected # "None" => /\ last'.result = expected
                                      /\ UNCHANGED AllButLast
              /\ last'.result \in {"AmountLessThanMinimum", "ContractMustBeActiveToInvest",
                                    "AddressInsufficientBalance"}
                    => last'.result = expected ]_vars

\* A deposit of an accepted size, on an active contract, turned away because the
\* investor holds less than the amount.
C12_Witness ==
    /\ contract_data # {}
    /\ last.op = "invest"
    /\ last.result = "AddressInsufficientBalance"
    /\ The(contract_data).state = "Actve"
    /\ last.amount >= The(contract_data).min_per_investment
    /\ tokens[last.who] < last.amount

ZeroGoalArgs ==
    [BaseArgs EXCEPT !.goal = 0]

C14_PauseSwitch ==
    [][ /\ last'.op = "stop_investments" =>
              IF The(contract_data).state = "Actve"
              THEN /\ last'.result = "Ok"
                   /\ The(contract_data').state = "Paused"
              ELSE /\ last'.result = "ContractMustBeActiveToBePaused"
                   /\ UNCHANGED AllButLast
        /\ last'.op = "restart_investments" =>
              IF The(contract_data).state = "Paused"
              THEN /\ last'.result = "Ok"
                   /\ The(contract_data').state = "Actve"
              ELSE /\ last'.result = "ContractMustBePausedToRestartAgain"
                   /\ UNCHANGED AllButLast
        /\ ( /\ last.op = "restart_investments"
             /\ last.result = "Ok"
             /\ last'.op = "invest"
             /\ last'.amount >= The(contract_data).min_per_investment
             /\ tokens[last'.who] >= last'.amount
             /\ balances.received_so_far + InvestedAmount(last'.amount)
                    <= The(contract_data).goal )
              => last'.result = "Ok" ]_vars

\* A contract with a deposit, paused and restarted.
C14_Witness ==
    /\ contract_data # {}
    /\ last.op = "restart_investments"
    /\ last.result = "Ok"
    /\ The(contract_data).state = "Actve"
    /\ balances.received_so_far > 0

(***************************************************************************)
(* Properties of the payments to investors (checked under SpecLedger).     *)
(***************************************************************************)
PaymentCall ==
    last'.op = "process_investor_payment"

PaymentDone ==
    PaymentCall /\ last'.result = "Ok"

\* The record a payment call names, before and after the call.
PaidKey ==
    investment_key(last'.who, last'.ts)

PaidRecord ==
    investments[PaidKey]

PaidRecordAfter ==
    investments'[PaidKey]

\* C15: process_investor_payment fails, transferring nothing and leaving records,
\* ledger and claims map as they are, with AddressHasNotInvested when there is no
\* record for (investor, claimable_ts), with AddressInvestmentIsNotClaimableYet
\* when now < claimable_ts, with AddressInvestmentNextTransferNotClaimableYet when
\* an unfinished record was last paid less than 30 days ago, and with
\* ContractInsufficientBalance when the amount to transfer exceeds the reserve.
C15_PaymentRejections ==
    [][ PaymentCall =>
          LET cd == The(contract_data)
              expected ==
                  IF PaidKey \notin DOMAIN investments THEN "AddressHasNotInvested"
                  ELSE IF now < PaidRecord.claimable_ts
                       THEN "AddressInvestmentIsNotClaimableYet"
                  ELSE IF PaidRecord.status = "Finished" THEN "AddressInvestmentIsFinished"
                  ELSE IF /\ PaidRecord.last_transfer_ts # 0
                          /\ now - PaidRecord.last_transfer_ts < 30 * 86400
                       THEN "AddressInvestmentNextTransferNotClaimableYet"
                  ELSE IF process_investment_payment(PaidRecord, cd, now).amount_to_transfer
                              > balances.reserve
                       THEN "ContractInsufficientBalance"
                  ELSE "Ok"
          IN  /\ last'.result = expected
              /\ expected # "Ok" => UNCHANGED AllButLast ]_vars

\* A due payment refused because the reserve does not hold the amount.
C15_Witness ==
    /\ last.op = "process_investor_payment"
    /\ last.result = "ContractInsufficientBalance"
    /\ investment_key(last.who, last.ts) \in DOMAIN investments
    /\ last.amount > balances.reserve
    /\ balances.reserve > 0

\* C16: a payment succeeds no earlier than the record's claimable_ts, and no
\* earlier than 30 days (2592000 s) after the record's previous successful
\* payment, whose time the record keeps as last_transfer_ts.
C16_PaymentsAMonthApart ==
    [][ PaymentDone =>
          /\ PaidKey \in DOMAIN investments
          /\ now >= PaidRecord.claimable_ts
          /\ PaidRecord.last_transfer_ts # 0 => now - PaidRecord.last_transfer_ts >= 2592000
          /\ PaidRecord.last_transfer_ts = 0 => PaidRecord.installments_transferred = 0
          /\ PaidRecordAfter.last_transfer_ts = now ]_vars

\* The second payment of a record, made a month or more after the first.
C16_Witness ==
    /\ last.op = "process_investor_payment"
    /\ last.result = "Ok"
    /\ investments[investment_key(last.who, last.ts)].installments_transferred = 2
    /\ investments[investment_key(last.who, last.ts)].last_transfer_ts = now

\* C17: a payment call on a Finished record fails with AddressInvestmentIsFinished,
\* also within 30 days of the last payment, transfers nothing and leaves the
\* record as it is; a Finished record stays Finished.
C17_FinishedIsTerminal ==
    [][ /\ ( PaymentCall
             /\ PaidKey \in DOMAIN investments
             /\ PaidRecord.status = "Finished" )
              => /\ last'.result = "AddressInvestmentIsFinished"
                 /\ UNCHANGED AllButLast
        /\ \A k \in DOMAIN investments :
              investments[k].status = "Finished"
                 => /\ k \in DOMAIN investments'
                    /\ investments'[k] = investments[k] ]_vars

\* A payment asked of a Finished record within 30 days of its last payment.
C17_Witness ==
    /\ last.op = "process_investor_payment"
    /\ last.result = "AddressInvestmentIsFinished"
    /\ investments[investment_key(last.who, last.ts)].status = "Finished"
    /\ now - investments[investment_key(last.who, last.ts)].last_transfer_ts < 2592000

ScenarioCommission ==
    LET tiers == (100000 - 100) \div 400
        denominator == IF tiers > 60 THEN 60 ELSE 10 + tiers
    IN  (((100000 * 500) \div denominator) \div 100) \div 100

\* C20: with rate 500, ReverseLoan, four installments, a minimum of 100000 and a
\* goal above the deposit, a deposit of 100000 puts 5000 in the reserve, the
\* tiered commission in the commission pool and 100000 - commission - 5000 in the
\* project pool; the record is Finished after exactly four successful payments,
\* and then paid == total.
C20_ReverseLoanScenario ==
    [][ /\ ( last'.op = "invest" /\ last'.result = "Ok" ) =>
              /\ last'.amount = 100000
              /\ balances'.reserve = balances.reserve + 5000
              /\ balances'.comission = balances.comission + ScenarioCommission
              /\ balances'.project =
                     balances.project + (100000 - ScenarioCommission - 5000)
        /\ \A k \in DOMAIN investments' :
              LET i == investments'[k]
              IN  /\ i.deposited = 100000 - ScenarioCommission
                  /\ i.installments_transferred = 4 <=> i.status = "Finished"
                  /\ i.status = "Finished" => i.paid = i.total ]_vars

\* The deposit of the scenario, Finished by its fourth payment.
C20_Witness ==
    /\ last.op = "process_investor_payment"
    /\ last.result = "Ok"
    /\ \E k \in DOMAIN investments :
          /\ investments[k].status = "Finished"
          /\ investments[k].installments_transferred = 4
          /\ investments[k].paid = investments[k].total
          /\ investments[k].total > 100000

(***************************************************************************)
(* Properties of the records' status (checked under SpecPayments).         *)
(***************************************************************************)
\* The order of the statuses (the values of InvestmentStatus).
StatusRank(status) ==
    CASE status = "Blocked" -> 1
      [] status = "Claimable" -> 2
      [] status = "WaitingForPayment" -> 3
      [] status = "CashFlowing" -> 4
      [] status = "Finished" -> 5

\* A record is created Blocked under a lock period, keeps its status in every
\* step but a successful payment on it, and never moves to an earlier status.
C21_StatusMovesForward ==
    /\ \A k \in DOMAIN investments' \ DOMAIN investments :
          The(contract_data).claim_block_days > 0 => investments'[k].status = "Blocked"
    /\ \A k \in DOMAIN investments :
          /\ k \in DOMAIN investments'
          /\ StatusRank(investments'[k].status) >= StatusRank(investments[k].status)
          /\ ~(PaymentDone /\ k = PaidKey) => investments'[k].status = investments[k].status

C21_FirstPayment ==
    /\ PaymentDone
    /\ PaidRecord.status = "Blocked"

C28_PaymentGrowsCounter ==
    [][ PaymentDone =>
          /\ balances'.payments > balances.payments
          /\ PaidRecordAfter.last_transfer_ts > PaidRecord.last_transfer_ts ]_vars

(***************************************************************************)
(* Properties of the admin's operations on the pools (under SpecLedger).   *)
(***************************************************************************)
\* C22: single_withdrawn(amount) fails with ContractInsufficientBalance and
\* changes nothing when amount exceeds the project pool; when it succeeds the
\* project pool decreases by amount, project_withdrawals increases by amount,
\* the project address receives exactly amount tokens, and nothing else of the
\* ledger changes.
C22_SingleWithdrawn ==
    [][ last'.op = "single_withdrawn" =>
          LET amount == last'.amount
          IN  /\ amount > balances.project =>
                    /\ last'.result = "ContractInsufficientBalance"
                    /\ UNCHANGED AllButLast
              /\ last'.result = "Ok" =>
                    /\ amount <= balances.project
                    /\ balances' = [balances EXCEPT !.project = @ - amount,
                                                    !.project_withdrawals = @ + amount]
                    /\ tokens'[Project] = tokens[Project] + amount
                    /\ tokens'[Contract] = tokens[Contract] - amount ]_vars

\* A withdrawal that was paid out of the project pool.
C22_Witness ==
    /\ last.op = "single_withdrawn"
    /\ last.result = "Ok"
    /\ last.amount > 0
    /\ balances.project_withdrawals >= last.amount
    /\ tokens[Project] >= last.amount

\* C23: move_funds_to_the_reserve(amount) fails with
\* ProjectBalanceInsufficientAmount exactly when the project balance is less than
\* the amount; it succeeds when the amount equals the project balance.
C23_MoveFailsOnlyWhenShort ==
    [][ last'.op = "move_funds_to_the_reserve" =>
          ( last'.result = "ProjectBalanceInsufficientAmount"
              <=> balances.project < last'.amount ) ]_vars

\* C27: no operation decreases received_so_far, payments, reserve_contributions,
\* project_withdrawals or moved_from_project_to_reserve.
C27_CountersMonotonic ==
    [][ /\ balances'.received_so_far >= balances.received_so_far
        /\ balances'.payments >= balances.payments
        /\ balances'.reserve_contributions >= balances.reserve_contributions
        /\ balances'.project_withdrawals >= balances.project_withdrawals
        /\ balances'.moved_from_project_to_reserve
               >= balances.moved_from_project_to_reserve ]_vars

(***************************************************************************)
(* The forecast of the reserve (checked under SpecForecast).               *)
(***************************************************************************)
\* S: amount_to_pay summed over the claims due within seven days of now.
RECURSIVE ForecastOver(_)
ForecastOver(addrs) ==
    IF addrs = {}
    THEN 0
    ELSE LET addr == CHOOSE a \in addrs : TRUE
         IN  ForecastOver(addrs \ {addr})
               + ( IF claims_map[addr].next_transfer_ts <= now + 7 * 86400
                   THEN claims_map[addr].amount_to_pay
                   ELSE 0 )

ForecastSum ==
    ForecastOver(DOMAIN claims_map)

ForecastCall ==
    last'.op = "check_reserve_balance"

AdminOperations ==
    {"process_investor_payment", "get_contract_balance", "stop_investments",
     "restart_investments", "single_withdrawn", "check_reserve_balance",
     "add_company_transfer", "move_funds_to_the_reserve"}

\* C25: an admin operation invoked by a principal other than the admin, or
\* invest invoked by a principal other than the named investor, fails and
\* changes neither the state nor the token balances.
C25_OnlyTheRequiredCaller ==
    [][ /\ \A caller \in Principals :
             /\ ( /\ contract_data # {}
                  /\ caller # The(contract_data).admin
                  /\ AdminCall(caller) )
                  => /\ last'.result = "AuthFailed"
                     /\ UNCHANGED AllButLast
             /\ \A addr \in Investors, amount \in AuthAmounts :
                  (caller # addr /\ InvestCall(caller, addr, amount))
                  => /\ last'.result = "AuthFailed"
                     /\ UNCHANGED AllButLast
        /\ (last'.op \in AdminOperations \cup {"invest"} /\ last'.result = "AuthFailed")
             => UNCHANGED AllButLast ]_vars

\* A payment that is due and that the reserve covers, invoked by the investor.
C25_Witness ==
    /\ last.op = "process_investor_payment"
    /\ last.who = User
    /\ last.result = "AuthFailed"
    /\ \E k \in DOMAIN investments :
          /\ payment_error(investments[k], now) = "Ok"
          /\ balances.reserve >= investments[k].regular_payment

(***************************************************************************)
(* Failing transfers (checked under SpecTransfers).                        *)
(***************************************************************************)
\* A transfer that cannot be made: refused by the token, negative, or more
\* than its sender holds.
TransferImpossible(accepted, from, amount) ==
    ~accepted \/ amount < 0 \/ tokens[from] < amount

InvestReachesTransfer(addr, amount) ==
    LET cd == The(contract_data)
        amounts == from_investment(amount, cd.interest_rate)
    IN  /\ invest_error(cd, amount, tokens[addr]) = "Ok"
        /\ balances.received_so_far + amounts.amount_to_invest
              + amounts.amount_to_reserve_fund <= cd.goal

PaymentReachesTransfer(addr, ts) ==
    /\ get_investment(addr, ts) # {}
    /\ payment_error(The(get_investment(addr, ts)), now) = "Ok"
    /\ process_investment_payment(The(get_investment(addr, ts)), The(contract_data),
                                  now).amount_to_transfer <= balances.reserve

\* C26: when the token transfer of invest, process_investor_payment,
\* single_withdrawn or add_company_transfer fails, the call returns the transfer
\* error and the ledger, the records, the claims and the configuration are as
\* before the call, as are the token balances.
C26_FailedTransferChangesNothing ==
    [][ /\ contract_data # {} =>
             \A accepted \in BOOLEAN :
               /\ \A addr \in Investors, amount \in InvestAmounts :
                    ( /\ InvestReachesTransfer(addr, amount)
                      /\ TransferImpossible(accepted, addr, amount)
                      /\ InvestVia(addr, amount, accepted) )
                    => /\ last'.result = "RecipientCannotReceivePayment"
                       /\ UNCHANGED AllButLast
               /\ \A addr \in Investors, ts \in PaymentKeys :
                    ( /\ PaymentReachesTransfer(addr, ts)
                      /\ TransferImpossible(accepted, Contract,
                             process_investment_payment(The(get_investment(addr, ts)),
                                 The(contract_data), now).amount_to_transfer)
                      /\ ProcessInvestorPaymentVia(addr, ts, accepted) )
                    => /\ last'.result = "RecipientCannotReceivePayment"
                       /\ UNCHANGED AllButLast
               /\ \A amount \in AdminAmounts :
                    /\ ( /\ balances.project >= amount
                         /\ TransferImpossible(accepted, Contract, amount)
                         /\ SingleWithdrawnVia(amount, accepted) )
                       => /\ last'.result = "RecipientCannotReceivePayment"
                          /\ UNCHANGED AllButLast
                    /\ ( /\ tokens[The(contract_data).admin] >= amount
                         /\ TransferImpossible(accepted, The(contract_data).admin, amount)
                         /\ AddCompanyTransferVia(amount, accepted) )
                       => /\ last'.result = "RecipientCannotReceivePayment"
                          /\ UNCHANGED AllButLast
        /\ last'.result = "RecipientCannotReceivePayment" => UNCHANGED AllButLast ]_vars

\* A payment that is due and covered, refused by the token, with a deposit on
\* the books.
C26_Witness ==
    /\ last.op = "process_investor_payment"
    /\ last.result = "RecipientCannotReceivePayment"
    /\ last.amount > 0
    /\ balances.reserve >= last.amount
    /\ tokens[Contract] >= last.amount

(***************************************************************************)
(* Initialisation (checked under SpecInit).                                *)
(***************************************************************************)
\* The arguments that initialisation is to refuse.
RefusedArgs(a) ==
    \/ a.i_rate = 0
    \/ ~(a.goal > 0)
    \/ a.return_months = 0
    \/ ~(a.min_per_investment > 0)
    \/ a.return_type \notin {1, 2}

\* C29: initialisation fails and stores no configuration when i_rate is 0, goal
\* is not > 0, return_months is 0, min_per_investment is not > 0 or return_type
\* is neither 1 nor 2; otherwise it creates the contract in state Active.
C29_InitialisationChecks ==
    [][ \A a \in InitArgs :
          Constructor(a) =>
            IF RefusedArgs(a)
            THEN last'.result # "Ok" /\ contract_data' = {}
            ELSE /\ last'.result = "Ok"
                 /\ contract_data' # {}
                 /\ The(contract_data').state = "Actve" ]_vars

(***************************************************************************)
(* The withdrawal of two signers against a moving pool (under SpecMultisig). *)
(***************************************************************************)
\* C30: whatever single_withdrawn and move_funds_to_the_reserve did to the
\* project pool since the first signature, a multisig_withdrawn call compares
\* its amount with the pool as it is at that call: an amount above the pool
\* fails and changes nothing, and a completed withdrawal releases to the project
\* address no more than the pool held, leaving the pool at zero or above.
C30_CompletionRechecksPool ==
    [][ last'.op = "multisig_withdrawn" =>
          /\ last'.amount > balances.project =>
                /\ last'.result = "ContractInsufficientBalance"
                /\ UNCHANGED AllButLast
          /\ last'.result = "Completed" =>
                /\ multisig # {}
                /\ last'.amount <= balances.project
                /\ balances'.project = balances.project - last'.amount
                /\ balances'.project >= 0
                /\ tokens'[Project] = tokens[Project] + last'.amount ]_vars

\* The second signer refused: the request holds the first signature for the
\* same amount, and the pool, drawn on since, no longer covers it.
C30_Witness ==
    /\ last.op = "multisig_withdrawn"
    /\ last.result = "ContractInsufficientBalance"
    /\ multisig # {}
    /\ The(multisig).amount = last.amount
    /\ ~is_expired(The(multisig), now)
    /\ last.who \in {Admin, Project}
    /\ ~Contains(The(multisig).signed_addrs, last.who)
    /\ balances.project < last.amount
    /\ balances.project_withdrawals + balances.moved_from_project_to_reserve > 0

(***************************************************************************)
(* The effect of each operation on the ledger (checked under SpecLedger).  *)
(***************************************************************************)
\* The ledger with the given amounts added to its eight fields.
LedgerPlus(b, reserve, project, comission, received, payments, contributions,
           withdrawals, moved) ==
    [reserve |-> b.reserve + reserve,
     project |-> b.project + project,
     comission |-> b.comission + comission,
     received_so_far |-> b.received_so_far + received,
     payments |-> b.payments + payments,
     reserve_contributions |-> b.reserve_contributions + contributions,
     project_withdrawals |-> b.project_withdrawals + withdrawals,
     moved_from_project_to_reserve |-> b.moved_from_project_to_reserve + moved]

\* C31: a successful invest adds to_commission, to_reserve and to_invest to
\* their pools and to_reserve + to_invest to received_so_far; a successful
\* add_company_transfer adds the amount to reserve and reserve_contributions; a
\* successful process_investor_payment takes the amount paid from reserve and
\* adds it to payments; a successful move_funds_to_the_reserve takes the amount
\* from project, adds it to reserve and to moved_from_project_to_reserve, and
\* keeps reserve + project; each leaves every other field of the ledger as it was.
C31_LedgerTransitions ==
    [][ last'.result = "Ok" =>
          LET amount == last'.amount
              a == from_investment(amount, The(contract_data).interest_rate)
          IN  /\ last'.op = "invest" =>
                    balances' = LedgerPlus(balances, a.amount_to_reserve_fund,
                                    a.amount_to_invest, a.amount_to_commission,
                                    a.amount_to_reserve_fund + a.amount_to_invest,
                                    0, 0, 0, 0)
              /\ last'.op = "add_company_transfer" =>
                    balances' = LedgerPlus(balances, amount, 0, 0, 0, 0, amount, 0, 0)
              /\ last'.op = "process_investor_payment" =>
                    balances' = LedgerPlus(balances, -amount, 0, 0, 0, amount, 0, 0, 0)
              /\ last'.op = "move_funds_to_the_reserve" =>
                    /\ balances' = LedgerPlus(balances, amount, -amount, 0, 0, 0, 0, 0,
                                              amount)
                    /\ balances'.reserve + balances'.project
                          = balances.reserve + balances.project ]_vars

\* A payment made while the project pool holds a deposit: the reserve paid it.
C31_Witness ==
    /\ last.op = "process_investor_payment"
    /\ last.result = "Ok"
    /\ last.amount > 0
    /\ balances.payments = last.amount
    /\ balances.project > 0

(***************************************************************************)
(* The commission denominator (checked under SpecDenominator).             *)
(***************************************************************************)
DenominatorCall ==
    last.op = "calculate_rate_denominator"

\* C32: the denominator is 10 for amounts up to 100 and
\* min(60, 10 + floor((amount - 100) / 400)) above; it never exceeds 60, and of
\* two amounts the larger never has the smaller denominator.
C32_DenominatorCappedAndMonotonic ==
    [][ /\ DenominatorCall' =>
             /\ last'.result =
                    IF last'.amount <= 100
                    THEN 10
                    ELSE IF 10 + ((last'.amount - 100) \div 400) > 60
                         THEN 60
                         ELSE 10 + ((last'.amount - 100) \div 400)
             /\ last'.result <= 60
        /\ (DenominatorCall /\ DenominatorCall' /\ last.amount <= last'.amount)
             => last.result <= last'.result ]_vars

(***************************************************************************)
(* The record invest creates (checked under SpecPayments).                 *)
(***************************************************************************)
\* C33: the record invest creates has deposited = to_invest + to_reserve,
\* interest = deposited * rate / 100 / 100 in integer division whatever the rate,
\* total = deposited + interest, claimable_ts = now + claim_block_days * 86400,
\* regular_payment = interest / return_months for a Coupon and
\* total / return_months for a ReverseLoan, paid = 0 and last_transfer_ts = 0.
C33_RecordCreated ==
    [][ (last'.op = "invest" /\ last'.result = "Ok") =>
          LET cd == The(contract_data)
              a == from_investment(last'.amount, cd.interest_rate)
              deposited == a.amount_to_invest + a.amount_to_reserve_fund
              interest == ((deposited * cd.interest_rate) \div 100) \div 100
              claimable_ts == now + cd.claim_block_days * 86400
              record == investments'[investment_key(last'.who, claimable_ts)]
          IN  /\ investment_key(last'.who, claimable_ts) \in DOMAIN investments'
              /\ record.deposited = deposited
              /\ record.accumulated_interests = interest
              /\ record.total = deposited + interest
              /\ record.claimable_ts = claimable_ts
              /\ cd.return_type = Coupon =>
                    record.regular_payment = interest \div cd.return_months
              /\ cd.return_type = ReverseLoan =>
                    record.regular_payment = (deposited + interest) \div cd.return_months
              /\ record.paid = 0
              /\ record.last_transfer_ts = 0 ]_vars

(***************************************************************************)
(* Custody (checked under SpecLedger).                                     *)
(***************************************************************************)
\* C34: the tokens the contract holds are reserve + project + commission in
\* every reachable state.
C34_Custody ==
    tokens[Contract] = balances.reserve + balances.project + balances.comission

\* Tokens have come in by a deposit and a contribution and gone out by a
\* payment and a withdrawal.
C34_Witness ==
    /\ balances.received_so_far > 0
    /\ balances.reserve_contributions > 0
    /\ balances.payments > 0
    /\ balances.project_withdrawals > 0
    /\ tokens[Contract] > 0

(***************************************************************************)
(* An investor with several investments (checked under SpecPortfolio).     *)
(***************************************************************************)
\* The sum of deposited over the records stored under the given keys.
RECURSIVE DepositedOver(_, _)
DepositedOver(store, keys) ==
    IF keys = {}
    THEN 0
    ELSE LET k == CHOOSE x \in keys : TRUE
         IN  store[k].deposited + DepositedOver(store, keys \ {k})

\* C35: a successful invest stores a record of its own and leaves the records
\* already stored as they are, and received_so_far is the sum of deposited over
\* the stored records, also when an investor invests twice at one timestamp.
C35_OneRecordPerInvest ==
    [][ (last'.op = "invest" /\ last'.result = "Ok") =>
          /\ investment_key(last'.who, last'.ts) \notin DOMAIN investments
          /\ investment_key(last'.who, last'.ts) \in DOMAIN investments'
          /\ \A k \in DOMAIN investments :
                k \in DOMAIN investments' /\ investments'[k] = investments[k]
          /\ balances'.received_so_far = DepositedOver(investments', DOMAIN investments') ]_vars

\* When the next payment of a record is scheduled: 30 days after the last
\* payment, or after the record was created when nothing has been paid.
NextScheduled(record) ==
    IF record.last_transfer_ts > 0
    THEN record.last_transfer_ts + 30 * 86400
    ELSE record.claimable_ts - The(contract_data).claim_block_days * 86400 + 30 * 86400

\* regular_payment summed over the records under the given keys that are not
\* Finished and whose next payment is scheduled within seven days of now.
RECURSIVE DueOver(_)
DueOver(keys) ==
    IF keys = {}
    THEN 0
    ELSE LET k == CHOOSE x \in keys : TRUE
             record == investments[k]
         IN  DueOver(keys \ {k})
               + ( IF /\ record.status # "Finished"
                      /\ NextScheduled(record) <= now + 7 * 86400
                   THEN record.regular_payment
                   ELSE 0 )

\* C36: the sum check_reserve_balance compares with the reserve is the sum of
\* regular_payment over the stored investments that are not Finished and whose
\* next payment is scheduled within seven days of now, and its result is what
\* the reserve lacks of that sum.
C36_ForecastFaithful ==
    [][ ForecastCall =>
          /\ min_funds(claims_map, DOMAIN claims_map, now) = DueOver(DOMAIN investments)
          /\ last'.amount =
                IF DueOver(DOMAIN investments) > 0
                     /\ balances.reserve < DueOver(DOMAIN investments)
                THEN DueOver(DOMAIN investments) - balances.reserve
                ELSE 0 ]_vars

(***************************************************************************)
(* The schedule the claims map advertises (checked under SpecPayments).    *)
(***************************************************************************)
\* C37: when process_investor_payment succeeds, the entry the claims map held
\* for the investment before the call has next_transfer_ts at or before the
\* time of the call.
C37_NotPaidBeforeAdvertised ==
    [][ PaymentDone =>
          /\ last'.who \in DOMAIN claims_map
          /\ claims_map[last'.who].next_transfer_ts <= now ]_vars

(***************************************************************************)
(* What a record has been paid (checked under SpecSplit).                  *)
(***************************************************************************)
\* C38: every stored record has 0 <= paid <= total, where total is deposited
\* plus the interest accrued.
C38_PaidWithinTotal ==
    \A k \in DOMAIN investments :
       /\ 0 <= investments[k].paid
       /\ investments[k].paid <= investments[k].total
       /\ investments[k].total
             = investments[k].deposited + investments[k].accumulated_interests

(***************************************************************************)
(* The payments come to an end (checked under SpecLiveness).               *)
(***************************************************************************)
\* The record of the deposit made at timestamp 0, which the clock of the model
\* leaves time to pay in full.
FirstKey ==
    investment_key(User, The(contract_data).claim_block_days * 86400)

\* C39: with time advancing, the reserve topped up and the admin calling
\* process_investor_payment whenever it can, every investment is eventually
\* Finished, whatever return type the contract was created with.
C39_EveryInvestmentFinishes ==
    (contract_data # {} /\ FirstKey \in DOMAIN investments)
        ~> (contract_data # {} /\ FirstKey \in DOMAIN investments
              /\ investments[FirstKey].status = "Finished")

(***************************************************************************)
(* BallotToken: who holds a token (checked under SpecBallot).              *)
(***************************************************************************)
\* The address has been minted and not burned since: mint wrote its Owner entry
\* and burn has not removed it.
Minted(addr) ==
    <<"Owner", addr>> \in DOMAIN ballot.persistent

\* C40: mint of an address fails with AddressAlreadyHoldsToken exactly when the
\* address has been minted and not burned since, and request_delegation and
\* approve_delegation between two such addresses do not fail with
\* AddressDoesNotHoldToken.
C40_HolderRecognised ==
    [][ /\ (ballot'.last.op = "mint" /\ has_admin(ballot)) =>
             ( ballot'.last.result = "AddressAlreadyHoldsToken"
                 <=> Minted(ballot'.last.from) )
        /\ ( /\ ballot'.last.op \in {"request_delegation", "approve_delegation"}
             /\ Minted(ballot'.last.from)
             /\ Minted(ballot'.last.to) )
             => ballot'.last.result # "AddressDoesNotHoldToken" ]_vars

====
